---- MODULE Spec2Model ----
(***************************************************************************)
(* Model of app4.py: the statement pipeline                                *)
(*   lines -> detect_statement_format -> parse_*_transactions              *)
(*         -> normalize_transactions -> categorize_expenses.               *)
(* Text is kept as text: a line, a description, a date and an amount are   *)
(* strings, and the regular expressions, str.strip, str.split, substring   *)
(* tests, number and date parsing are computed character by character.     *)
(***************************************************************************)
EXTENDS Integers, Sequences, FiniteSets, TLC

VARIABLES lines, pc, statement_format, i, current_transaction, transactions, df

vars == <<lines, pc, statement_format, i, current_transaction, transactions, df>>

(***************************************************************************)
(* Bounds of the model.                                                    *)
(***************************************************************************)
\* longest document, in lines
MaxLines == 3

(***************************************************************************)
(* Characters and strings.                                                 *)
(***************************************************************************)
\* the i-th character of s, "" outside s
ch(s, k) == IF 1 <= k /\ k <= Len(s) THEN SubSeq(s, k, k) ELSE ""

\* s[a..b], "" when the range is empty
sub(s, a, b) == IF a <= b THEN SubSeq(s, a, b) ELSE ""

DigitChars == {"0", "1", "2", "3", "4", "5", "6", "7", "8", "9"}

UpperChars == "ABCDEFGHIJKLMNOPQRSTUVWXYZ"

LowerChars == "abcdefghijklmnopqrstuvwxyz"

UpperSet == {SubSeq(UpperChars, k, k) : k \in 1..26}

LowerSet == {SubSeq(LowerChars, k, k) : k \in 1..26}

\* regex \d
IsDigit(c) == c \in DigitChars

\* regex \w
IsWord(c) == c \in DigitChars \cup UpperSet \cup LowerSet \cup {"_"}

\* regex \s, and the characters str.strip and str.split treat as blank
IsSpace(c) == c \in {" ", "\t"}

\* str.lower on one character
LowerOf == [c \in UpperSet |-> LET k == CHOOSE n \in 1..26 : SubSeq(UpperChars, n, n) = c
                               IN  SubSeq(LowerChars, k, k)]

RECURSIVE ToLower(_)
\* str.lower (the string is halved, so that long strings nest only a little)
ToLower(s) ==
    IF Len(s) = 0 THEN ""
    ELSE IF Len(s) = 1 THEN (IF s \in UpperSet THEN LowerOf[s] ELSE s)
    ELSE LET half == Len(s) \div 2
         IN  ToLower(SubSeq(s, 1, half)) \o ToLower(SubSeq(s, half + 1, Len(s)))

\* needle in s
Contains(s, needle) ==
    \E k \in 1..(Len(s) - Len(needle) + 1) : SubSeq(s, k, k + Len(needle) - 1) = needle

\* first index >= k of s that does not hold a blank (Len(s)+1 when none)
SkipWs(s, k) ==
    LET rest == {n \in k..Len(s) : ~IsSpace(ch(s, n))}
    IN  IF rest = {} THEN (IF k > Len(s) + 1 THEN k ELSE Len(s) + 1)
        ELSE CHOOSE n \in rest : \A o \in rest : n <= o

\* largest index <= e of s that does not hold a blank (0 when none)
LastNonWs(s, e) ==
    LET rest == {n \in 1..e : ~IsSpace(ch(s, n))}
    IN  IF rest = {} THEN 0 ELSE CHOOSE n \in rest : \A o \in rest : n >= o

\* start of the blank-free token that ends at index e of s
TokStart(s, e) ==
    LET blanks == {n \in 1..e : IsSpace(ch(s, n))}
    IN  IF blanks = {} THEN 1 ELSE 1 + (CHOOSE n \in blanks : \A o \in blanks : n >= o)

\* str.strip
Strip(s) ==
    LET a == SkipWs(s, 1)
        b == LastNonWs(s, Len(s))
    IN  sub(s, a, b)

(***************************************************************************)
(* The pieces the three patterns are made of.                              *)
(***************************************************************************)
\* [\d,]+\.\d{2} matching the whole of t
IsDecimal(t) ==
    LET n == Len(t)
    IN  /\ n >= 4
        /\ IsDigit(ch(t, n))
        /\ IsDigit(ch(t, n - 1))
        /\ ch(t, n - 2) = "."
        /\ \A k \in 1..(n - 3) : IsDigit(ch(t, k)) \/ ch(t, k) = ","

\* \d{1,2} at index k of s, greedy: the index of its last digit, 0 when no digit
DigitsEnd(s, k) ==
    IF ~IsDigit(ch(s, k)) THEN 0
    ELSE IF IsDigit(ch(s, k + 1)) THEN k + 1 ELSE k

\* \w{3} at index k of s
Word3(s, k) == IsWord(ch(s, k)) /\ IsWord(ch(s, k + 1)) /\ IsWord(ch(s, k + 2))

\* \w{3} \d{1,2} at index k of s: the index of its last digit, 0 when no match
MonthDayEnd(s, k) ==
    IF Word3(s, k) /\ ch(s, k + 3) = " " THEN DigitsEnd(s, k + 4) ELSE 0

NoMatch == [ok |-> FALSE]

\* \s+(.*?)\s+ and then n amounts ([\d,]+\.\d{2}) separated by \s+, up to $,
\* after a prefix that ends at index h of s: the lazy group and the amounts
TailMatch(s, h, n) ==
    LET L  == Len(s)
        a2 == TokStart(s, L)
        e1 == LastNonWs(s, a2 - 1)
        a1 == TokStart(s, e1)
        a  == IF n = 2 THEN a1 ELSE a2
        j  == LastNonWs(s, a - 1)
    IN  IF L = 0 \/ IsSpace(ch(s, L)) \/ ~IsDecimal(sub(s, a2, L)) THEN NoMatch
        ELSE IF n = 2 /\ (e1 = 0 \/ ~IsDecimal(sub(s, a1, e1))) THEN NoMatch
        ELSE IF a <= h + 1 \/ j < h \/ ~IsSpace(ch(s, h + 1)) THEN NoMatch
        ELSE IF j = h /\ a - 1 < h + 2 THEN NoMatch
        ELSE [ok   |-> TRUE,
              text |-> IF j = h THEN "" ELSE sub(s, SkipWs(s, h + 1), j),
              amt1 |-> IF n = 2 THEN sub(s, a1, e1) ELSE sub(s, a2, L),
              amt2 |-> sub(s, a2, L)]

(***************************************************************************)
(* The three patterns, as re.match applies them to one line.               *)
(***************************************************************************)
\* (\d{3})\s+(\w{3} \d{1,2})\s+(\w{3} \d{1,2})\s+(.*?)\s+([\d,]+\.\d{2})$
CreditCardPattern(line) ==
    LET a  == SkipWs(line, 4)
        e1 == MonthDayEnd(line, a)
        b  == SkipWs(line, e1 + 1)
        e2 == MonthDayEnd(line, b)
        t  == TailMatch(line, e2, 1)
    IN  IF ~(IsDigit(ch(line, 1)) /\ IsDigit(ch(line, 2)) /\ IsDigit(ch(line, 3))) THEN NoMatch
        ELSE IF a = 4 \/ e1 = 0 \/ b = e1 + 1 \/ e2 = 0 \/ ~t.ok THEN NoMatch
        ELSE [ok |-> TRUE, ref_num |-> sub(line, 1, 3), trans_date |-> sub(line, a, e1),
              post_date |-> sub(line, b, e2), details |-> t.text, amount |-> t.amt2]

\* (\d{1,2} \w{3})\s+(.*?)\s+([\d,]+\.\d{2})\s+([\d,]+\.\d{2})$
CommonwealthBankPattern(line) ==
    LET e == DigitsEnd(line, 1)
        t == TailMatch(line, e + 4, 2)
    IN  IF e = 0 \/ ch(line, e + 1) # " " \/ ~Word3(line, e + 2) \/ ~t.ok THEN NoMatch
        ELSE [ok |-> TRUE, date |-> sub(line, 1, e + 4), description |-> t.text,
              debit |-> t.amt1, credit |-> t.amt2]

\* (\w{3}\d{1,2})\s+(.*?)\s+([\d,]+\.\d{2})\s+([\d,]+\.\d{2})$
DebitCardPattern(line) ==
    LET e == DigitsEnd(line, 4)
        t == TailMatch(line, e, 2)
    IN  IF ~Word3(line, 1) \/ e = 0 \/ ~t.ok THEN NoMatch
        ELSE [ok |-> TRUE, date |-> sub(line, 1, e), transaction_type |-> t.text,
              amount |-> t.amt1, balance |-> t.amt2]

(***************************************************************************)
(* The lines a document is made of.                                        *)
(***************************************************************************)
LinePool ==
    { "Commonwealth Bank of Australia",
      "REF TRANS. POST",
      "Jan05 OpeningBalance 1.00 2.00",
      "Feb07 POINTOFSALEPURCHASE Tim Hortons x 4.00 6.00",
      "001 JAN 05 JAN 07 NETFLIX.COM 15.99",
      "002 Feb 30 Mar 1 Uber iga a b 1,000.00",
      "1 Jan Woolworths Metro Store 123 Sydney 5.00 95.00",
      "31 Feb  7.00 8.00",
      "02 Jan debit interest 1.00 2.00",
      "  Store 12\t",
      "payment from",
      "03 Jan Salary 9.00" }

RECURSIVE SeqsUpTo(_, _)
\* the sequences over S of length at most n
SeqsUpTo(S, n) ==
    IF n = 0 THEN {<<>>}
    ELSE LET shorter == SeqsUpTo(S, n - 1)
         IN  shorter \cup {Append(q, x) : q \in {r \in shorter : Len(r) = n - 1}, x \in S}

Documents == SeqsUpTo(LinePool, MaxLines)

\* re.match(pattern, line) for each line a document can hold, per parser
CreditCardMatch == [line \in LinePool |-> CreditCardPattern(line)]

DebitCardMatch == [line \in LinePool |-> DebitCardPattern(line)]

CommonwealthBankMatch == [line \in LinePool |-> CommonwealthBankPattern(line)]

(***************************************************************************)
(* detect_statement_format                                                 *)
(***************************************************************************)
\* any(marker in line for line in lines)
AnyLineHas(ls, marker) == \E k \in 1..Len(ls) : Contains(ls[k], marker)

\* the detector with the credit card marker tried before the bank's name
detect_credit_card_first(ls) ==
    IF AnyLineHas(ls, "TRANS. POST") THEN "credit_card"
    ELSE IF AnyLineHas(ls, "Commonwealth Bank of Australia") THEN "commonwealth_bank"
    ELSE IF AnyLineHas(ls, "OpeningBalance") THEN "debit_card"
    ELSE "credit_card"

\* the detector with no default: an unrecognized document has no format
detect_without_default(ls) ==
    IF AnyLineHas(ls, "Commonwealth Bank of Australia") THEN "commonwealth_bank"
    ELSE IF AnyLineHas(ls, "TRANS. POST") THEN "credit_card"
    ELSE IF AnyLineHas(ls, "OpeningBalance") THEN "debit_card"
    ELSE "unsupported"

detect_statement_format(ls) ==
    IF AnyLineHas(ls, "Commonwealth Bank of Australia") THEN "commonwealth_bank"
    ELSE IF AnyLineHas(ls, "TRANS. POST") THEN "credit_card"
    ELSE IF AnyLineHas(ls, "OpeningBalance") THEN "debit_card"
    ELSE "credit_card"

(***************************************************************************)
(* The line parsers: one slot, current_transaction, that is None or the    *)
(* tuple (date, description, amount) being accumulated.                    *)
(***************************************************************************)
None == <<>>

\* if current_transaction: transactions.append(current_transaction)
AppendCurrent(txs, cur) == IF cur # None THEN Append(txs, cur) ELSE txs

\* the continuation with the line joined as it is, blanks and all
ContinuationUntrimmed(cur, line) ==
    IF cur # None THEN <<cur[1], cur[2] \o " " \o line, cur[3]>> ELSE cur

\* the slot after a line that does not match: the trimmed line joins the description
Continuation(cur, line) ==
    IF cur # None THEN <<cur[1], cur[2] \o " " \o Strip(line), cur[3]>> ELSE cur

\* amount = debit if debit else f"-{credit}"
CommonwealthAmount(debit, credit) == IF debit # "" THEN debit ELSE "-" \o credit

\* the tuple a matching line starts, per parser
CreditCardTuple(m) == <<m.trans_date, m.details, m.amount>>

DebitCardTuple(m) == <<m.date, m.transaction_type, m.amount>>

CommonwealthBankTuple(m) == <<m.date, m.description, CommonwealthAmount(m.debit, m.credit)>>

\* the parser without the append after the loop: the last transaction is lost
ParserStepWithoutLast(m, started) ==
    IF i <= Len(lines)
    THEN /\ i' = i + 1
         /\ pc' = pc
         /\ IF m.ok
            THEN /\ transactions' = AppendCurrent(transactions, current_transaction)
                 /\ current_transaction' = started
            ELSE /\ transactions' = transactions
                 /\ current_transaction' = Continuation(current_transaction, lines[i])
    ELSE /\ transactions' = transactions
         /\ pc' = "normalize"
         /\ UNCHANGED <<i, current_transaction>>

\* one pass of "for line in lines", or the code after the loop
ParserStep(m, started) ==
    IF i <= Len(lines)
    THEN /\ i' = i + 1
         /\ pc' = pc
         /\ IF m.ok
            THEN /\ transactions' = AppendCurrent(transactions, current_transaction)
                 /\ current_transaction' = started
            ELSE /\ transactions' = transactions
                 /\ current_transaction' = Continuation(current_transaction, lines[i])
    ELSE /\ transactions' = AppendCurrent(transactions, current_transaction)
         /\ pc' = "normalize"
         /\ UNCHANGED <<i, current_transaction>>

parse_credit_card_transactions ==
    /\ pc = "parse"
    /\ statement_format = "credit_card"
    /\ LET m == IF i <= Len(lines) THEN CreditCardMatch[lines[i]] ELSE NoMatch
       IN  ParserStep(m, IF m.ok THEN CreditCardTuple(m) ELSE None)
    /\ UNCHANGED <<lines, statement_format, df>>

parse_debit_card_transactions ==
    /\ pc = "parse"
    /\ statement_format = "debit_card"
    /\ LET m == IF i <= Len(lines) THEN DebitCardMatch[lines[i]] ELSE NoMatch
       IN  ParserStep(m, IF m.ok THEN DebitCardTuple(m) ELSE None)
    /\ UNCHANGED <<lines, statement_format, df>>

parse_commonwealth_bank_transactions ==
    /\ pc = "parse"
    /\ statement_format = "commonwealth_bank"
    /\ LET m == IF i <= Len(lines) THEN CommonwealthBankMatch[lines[i]] ELSE NoMatch
       IN  ParserStep(m, IF m.ok THEN CommonwealthBankTuple(m) ELSE None)
    /\ UNCHANGED <<lines, statement_format, df>>

(***************************************************************************)
(* normalize_transactions                                                  *)
(***************************************************************************)
RECURSIVE RemoveChar(_, _)
\* str.replace(c, "") for a one-character c
RemoveChar(s, c) ==
    IF Len(s) = 0 THEN ""
    ELSE IF Len(s) = 1 THEN (IF s = c THEN "" ELSE s)
    ELSE LET half == Len(s) \div 2
         IN  RemoveChar(SubSeq(s, 1, half), c) \o RemoveChar(SubSeq(s, half + 1, Len(s)), c)

AllDigits(s) == \A k \in 1..Len(s) : IsDigit(ch(s, k))

DigitVal(c) == CHOOSE n \in 0..9 : SubSeq("0123456789", n + 1, n + 1) = c

RECURSIVE DigitsToInt(_)
\* the number a string of digits writes ("" is 0)
DigitsToInt(s) ==
    IF s = "" THEN 0
    ELSE 10 * DigitsToInt(SubSeq(s, 1, Len(s) - 1)) + DigitVal(SubSeq(s, Len(s), Len(s)))

NaN == [nan |-> TRUE]

\* pd.to_numeric(errors='coerce') on one text, the number held in cents: an
\* optional sign, digits, and an optional point with up to two more digits (the
\* patterns capture exactly two), at least one digit in all; anything else is NaN
ToNumeric(t) ==
    LET neg   == ch(t, 1) = "-"
        body  == IF neg \/ ch(t, 1) = "+" THEN Tail(t) ELSE t
        dots  == {k \in 1..Len(body) : ch(body, k) = "."}
        dot   == IF dots = {} THEN Len(body) + 1 ELSE CHOOSE k \in dots : TRUE
        whole == sub(body, 1, dot - 1)
        frac  == sub(body, dot + 1, Len(body))
        cents == 100 * DigitsToInt(whole)
                 + (IF Len(frac) = 1 THEN 10 * DigitsToInt(frac) ELSE DigitsToInt(frac))
    IN  IF Cardinality(dots) > 1 \/ ~AllDigits(whole) \/ ~AllDigits(frac)
           \/ Len(whole) + Len(frac) = 0 \/ Len(frac) > 2
        THEN NaN
        ELSE [nan |-> FALSE, cents |-> IF neg THEN 0 - cents ELSE cents]

NaT == [nat |-> TRUE]

MonthAbbr == <<"jan", "feb", "mar", "apr", "may", "jun", "jul", "aug", "sep", "oct", "nov", "dec">>

\* days of each month of 1900, the year a date without a year is given
DaysInMonth == <<31, 28, 31, 30, 31, 30, 31, 31, 30, 31, 30, 31>>

\* %b at index k of s: the month number, 0 when no month is written there
MonthAt(s, k) ==
    LET w    == ToLower(sub(s, k, k + 2))
        hits == {n \in 1..12 : k + 2 <= Len(s) /\ MonthAbbr[n] = w}
    IN  IF hits = {} THEN 0 ELSE CHOOSE n \in hits : TRUE

\* %d at index k of s, 3[0-1]|[1-2]\d|0[1-9]|[1-9]| [1-9]: the index of its
\* last character, 0 when no day is written there
DayEndAt(s, k) ==
    LET c1 == ch(s, k)
        c2 == ch(s, k + 1)
    IN  IF c1 = "3" /\ c2 \in {"0", "1"} THEN k + 1
        ELSE IF c1 \in {"1", "2"} /\ IsDigit(c2) THEN k + 1
        ELSE IF c1 = "0" /\ IsDigit(c2) /\ c2 # "0" THEN k + 1
        ELSE IF IsDigit(c1) /\ c1 # "0" THEN k
        ELSE IF c1 = " " /\ IsDigit(c2) /\ c2 # "0" THEN k + 1
        ELSE 0

\* the date of month m and day text d, NaT when the month has no such day
DateOf(m, d) ==
    LET day == DigitsToInt(Strip(d))
    IN  IF day <= DaysInMonth[m] THEN [nat |-> FALSE, month |-> m, day |-> day] ELSE NaT

\* pd.to_datetime(format="%d %b", errors="coerce") on one text
ParseDayMonth(t) ==
    LET e == DayEndAt(t, 1)
        a == SkipWs(t, e + 1)
        m == MonthAt(t, a)
    IN  IF e = 0 \/ a = e + 1 \/ m = 0 \/ a + 2 # Len(t) THEN NaT
        ELSE DateOf(m, sub(t, 1, e))

\* pd.to_datetime(format="%b %d", errors="coerce") on one text
ParseMonthDay(t) ==
    LET m == MonthAt(t, 1)
        a == SkipWs(t, 4)
        e == DayEndAt(t, a)
    IN  IF m = 0 \/ a = 4 \/ e = 0 \/ e # Len(t) THEN NaT
        ELSE DateOf(m, sub(t, a, e))

ParseDate(t, format) ==
    IF format = "commonwealth_bank" THEN ParseDayMonth(t) ELSE ParseMonthDay(t)

RECURSIVE SplitFrom(_, _)
\* the blank-separated tokens of s from index k on
SplitFrom(s, k) ==
    LET a  == SkipWs(s, k)
        ws == {n \in a..Len(s) : IsSpace(ch(s, n))}
        e  == IF ws = {} THEN Len(s) ELSE (CHOOSE n \in ws : \A o \in ws : n <= o) - 1
    IN  IF a > Len(s) THEN <<>> ELSE <<sub(s, a, e)>> \o SplitFrom(s, e + 1)

\* str.split()
Split(s) == SplitFrom(s, 1)

RECURSIVE Join(_)
\* " ".join(words)
Join(words) ==
    IF words = <<>> THEN ""
    ELSE IF Len(words) = 1 THEN words[1]
    ELSE words[1] \o " " \o Join(Tail(words))

\* the cut one word too long: " ".join(x.split()[:4])
TruncateToFour(x) ==
    LET words == Split(x)
    IN  Join(SubSeq(words, 1, IF Len(words) < 4 THEN Len(words) ELSE 4))

\* " ".join(x.split()[:3])
Truncate(x) ==
    LET words == Split(x)
    IN  Join(SubSeq(words, 1, IF Len(words) < 3 THEN Len(words) ELSE 3))

RECURSIVE RemoveFrom(_, _, _, _)
\* s from index k on without the occurrences of lowpat in its lowered text low,
\* taken left to right: up to the next occurrence, then on from its end
RemoveFrom(s, low, lowpat, k) ==
    LET found == {n \in k..(Len(s) - Len(lowpat) + 1) :
                     SubSeq(low, n, n + Len(lowpat) - 1) = lowpat}
        first == CHOOSE n \in found : \A o \in found : n <= o
    IN  IF found = {} THEN sub(s, k, Len(s))
        ELSE sub(s, k, first - 1) \o RemoveFrom(s, low, lowpat, first + Len(lowpat))

\* str.replace(pat, "", case=False): every occurrence, left to right
RemoveIgnoreCase(s, pat) == RemoveFrom(s, ToLower(s), ToLower(pat), 1)

\* the alternatives of the pattern str.contains is given, per format
Exclusions(format) ==
    IF format = "debit_card"
    THEN {"OpeningBalance", "ClosingBalance", "Deposit", "CreditCard/LOCpayment"}
    ELSE IF format = "credit_card" THEN {"PAYMENT FROM"}
    ELSE IF format = "commonwealth_bank" THEN {"OPENING BALANCE", "DEBIT INTEREST"}
    ELSE {}

\* str.contains without case=False
ContainsExcludedSameCase(description, format) ==
    \E p \in Exclusions(format) : Contains(description, p)

\* str.contains(pattern, case=False) on one description
ContainsExcluded(description, format) ==
    LET lowered == ToLower(description)
    IN  \E p \in Exclusions(format) : Contains(lowered, ToLower(p))

\* pd.DataFrame(transactions, columns=["Date", "Description", "Amount"])
DataFrame(txs) ==
    [k \in 1..Len(txs) |-> [index |-> k - 1, Date |-> txs[k][1],
                            Description |-> txs[k][2], Amount |-> txs[k][3]]]

\* the Amount column: commas out, to_numeric, dropna(subset=["Amount"])
AmountStep(frame) ==
    LET parsed == [k \in 1..Len(frame) |->
                     [frame[k] EXCEPT !.Amount = ToNumeric(RemoveChar(@, ","))]]
        HasAmount(r) == ~r.Amount.nan
    IN  SelectSeq(parsed, HasAmount)

\* the Date column: to_datetime with the format's pattern, failures coerced to NaT
DateStep(frame, format) ==
    [k \in 1..Len(frame) |-> [frame[k] EXCEPT !.Date = ParseDate(@, format)]]

\* the step with the mask not negated: the rows str.contains hits are the ones kept
FilterStepInverted(frame, format) ==
    LET Kept(r) == ContainsExcluded(r.Description, format)
        kept    == SelectSeq(frame, Kept)
    IN  IF format = "debit_card"
        THEN [k \in 1..Len(kept) |->
                [kept[k] EXCEPT !.Description = Strip(RemoveIgnoreCase(@, "Pointofsalepurchase"))]]
        ELSE kept

\* the rows str.contains does not hit; debit_card also loses Pointofsalepurchase
FilterStep(frame, format) ==
    LET Kept(r) == ~ContainsExcluded(r.Description, format)
        kept    == SelectSeq(frame, Kept)
    IN  IF format = "debit_card"
        THEN [k \in 1..Len(kept) |->
                [kept[k] EXCEPT !.Description = Strip(RemoveIgnoreCase(@, "Pointofsalepurchase"))]]
        ELSE kept

\* descriptions cut to three words
TruncateStep(frame) ==
    [k \in 1..Len(frame) |-> [frame[k] EXCEPT !.Description = Truncate(@)]]

normalize_transactions_result(txs, format) ==
    TruncateStep(FilterStep(DateStep(AmountStep(DataFrame(txs)), format), format))

normalize_transactions ==
    /\ pc = "normalize"
    /\ df' = normalize_transactions_result(transactions, statement_format)
    /\ pc' = "categorize"
    /\ UNCHANGED <<lines, statement_format, i, current_transaction, transactions>>

(***************************************************************************)
(* categorize_expenses                                                     *)
(***************************************************************************)
categories ==
    << [name |-> "Groceries", keywords |-> <<"woolworths", "iga", "supermarket", "freshco",
                                             "dhesi meat shop", "7eleven", "dollarama">>],
       [name |-> "Dining/Takeout", keywords |-> <<"restaurant", "cafe", "tim hortons",
                                                  "popeyes", "banter ice cream">>],
       [name |-> "Utilities", keywords |-> <<"virgin plus", "adobe inc", "internet",
                                             "electricity", "water">>],
       [name |-> "Subscriptions", keywords |-> <<"canva", "nayax", "netflix", "spotify">>],
       [name |-> "Transportation", keywords |-> <<"uber", "lyft", "gas station",
                                                  "public transit">>],
       [name |-> "Entertainment", keywords |-> <<"movie", "concert", "theme park", "music">>],
       [name |-> "Shopping", keywords |-> <<"petstock", "clothing", "electronics", "amazon">>],
       [name |-> "Health", keywords |-> <<"pharmacy", "hospital", "gym">>],
       [name |-> "Other", keywords |-> <<>>] >>

RECURSIVE KeywordLoop(_, _, _)
\* for keyword in keywords: if keyword in description.lower(), from the k-th on
KeywordLoop(lowered, keywords, k) ==
    IF k > Len(keywords) THEN FALSE
    ELSE IF Contains(lowered, keywords[k]) THEN TRUE
    ELSE KeywordLoop(lowered, keywords, k + 1)

RECURSIVE CategoryLoop(_, _)
\* for category, keywords in categories.items(), from the c-th on
CategoryLoop(lowered, c) ==
    IF c > Len(categories) THEN "Other"
    ELSE IF KeywordLoop(lowered, categories[c].keywords, 1) THEN categories[c].name
    ELSE CategoryLoop(lowered, c + 1)

RECURSIVE CategoryLoopBack(_, _)
\* the table walked from its last entry to its first
CategoryLoopBack(lowered, c) ==
    IF c < 1 THEN "Other"
    ELSE IF KeywordLoop(lowered, categories[c].keywords, 1) THEN categories[c].name
    ELSE CategoryLoopBack(lowered, c - 1)

\* the category of the last entry of the table that matches
get_category_last(description) == CategoryLoopBack(ToLower(description), Len(categories))

get_category(description) == CategoryLoop(ToLower(description), 1)

categorize_expenses ==
    /\ pc = "categorize"
    /\ df' = [k \in 1..Len(df) |->
                [index |-> df[k].index, Date |-> df[k].Date, Description |-> df[k].Description,
                 Amount |-> df[k].Amount, Category |-> get_category(df[k].Description)]]
    /\ pc' = "done"
    /\ UNCHANGED <<lines, statement_format, i, current_transaction, transactions>>

(***************************************************************************)
(* main: the upload, then the four stages in order.                        *)
(***************************************************************************)
detect ==
    /\ pc = "detect"
    /\ statement_format' = detect_statement_format(lines)
    /\ pc' = IF statement_format' \in {"credit_card", "debit_card", "commonwealth_bank"}
             THEN "parse" ELSE "error"
    /\ UNCHANGED <<lines, i, current_transaction, transactions, df>>

Init ==
    /\ lines \in Documents
    /\ pc = "detect"
    /\ statement_format = ""
    /\ i = 1
    /\ current_transaction = None
    /\ transactions = <<>>
    /\ df = <<>>

Next ==
    \/ detect
    \/ parse_credit_card_transactions
    \/ parse_debit_card_transactions
    \/ parse_commonwealth_bank_transactions
    \/ normalize_transactions
    \/ categorize_expenses

Spec == Init /\ [][Next]_vars

(***************************************************************************)
(* What the claims are stated with.                                        *)
(***************************************************************************)
Parsed == pc \in {"normalize", "categorize", "done"}

Normalized == pc \in {"categorize", "done"}

\* the tuple line k starts under the detected format, None when it does not match
StartOf(k) ==
    IF statement_format = "credit_card"
    THEN (IF CreditCardMatch[lines[k]].ok THEN CreditCardTuple(CreditCardMatch[lines[k]]) ELSE None)
    ELSE IF statement_format = "debit_card"
    THEN (IF DebitCardMatch[lines[k]].ok THEN DebitCardTuple(DebitCardMatch[lines[k]]) ELSE None)
    ELSE IF statement_format = "commonwealth_bank"
    THEN (IF CommonwealthBankMatch[lines[k]].ok
          THEN CommonwealthBankTuple(CommonwealthBankMatch[lines[k]]) ELSE None)
    ELSE None

\* the indexes of the matching lines
Starts == {k \in 1..Len(lines) : StartOf(k) # None}

\* the number of matching lines up to line k
Rank(k) == Cardinality({n \in Starts : n <= k})

\* the last line before the next matching line after a (the last line when none)
LastOf(a) ==
    LET later == {n \in Starts : n > a}
    IN  IF later = {} THEN Len(lines) ELSE (CHOOSE n \in later : \A o \in later : n <= o) - 1

RECURSIVE Accumulated(_, _)
\* the description captured at matching line a followed by lines a+1..e, each
\* trimmed and after one space
Accumulated(a, e) ==
    IF e <= a THEN StartOf(a)[2]
    ELSE Accumulated(a, e - 1) \o " " \o Strip(lines[e])

\* the record of matching line a once lines a+1..e have joined it
RecordOf(a, e) == <<StartOf(a)[1], Accumulated(a, e), StartOf(a)[3]>>

\* s holds p, whatever the case of the letters
HoldsIgnoreCase(s, p) == Contains(ToLower(s), ToLower(p))

\* C1: the detector answers one of the three tags, never an error:
\* commonwealth_bank when a line holds "Commonwealth Bank of Australia" (whatever
\* else the document holds), else credit_card when a line holds "TRANS. POST",
\* else debit_card when a line holds "OpeningBalance", else credit_card.
C1_DetectPriority ==
    pc # "detect" =>
        LET has(marker) == \E k \in DOMAIN lines : Contains(lines[k], marker)
            cba == has("Commonwealth Bank of Australia")
            cc  == has("TRANS. POST")
            dc  == has("OpeningBalance")
        IN  /\ pc # "error"
            /\ statement_format \in {"commonwealth_bank", "credit_card", "debit_card"}
            /\ cba => statement_format = "commonwealth_bank"
            /\ (~cba /\ cc) => statement_format = "credit_card"
            /\ (~cba /\ ~cc /\ dc) => statement_format = "debit_card"
            /\ (~cba /\ ~cc /\ ~dc) => statement_format = "credit_card"

\* C1 witness: a document with all three markers was detected as commonwealth_bank
C1_Witness ==
    /\ pc = "done"
    /\ statement_format = "commonwealth_bank"
    /\ \E k \in DOMAIN lines : Contains(lines[k], "TRANS. POST")
    /\ \E k \in DOMAIN lines : Contains(lines[k], "OpeningBalance")

C3_OneRecordPerMatch ==
    /\ Parsed =>
          /\ Len(transactions) = Cardinality(Starts)
          /\ \A a \in Starts : transactions[Rank(a)] = RecordOf(a, LastOf(a))
    /\ (pc = "parse" /\ \A n \in Starts : n >= i) =>
          /\ transactions = <<>>
          /\ current_transaction = None

\* C3 witness: two records, the first started after a line that was discarded
C3_Witness ==
    /\ Parsed
    /\ Len(lines) = MaxLines
    /\ 1 \notin Starts
    /\ Len(transactions) = 2

\* C4: no row of the normalized table has a missing date or a missing amount
C4_NoNullDateOrAmount ==
    Normalized => \A k \in DOMAIN df : ~df[k].Date.nat /\ ~df[k].Amount.nan

\* a line with the Commonwealth Bank date and description and one amount only:
\* a row whose other amount field is empty
OneAmountRow(line) ==
    LET e == DigitsEnd(line, 1)
    IN  /\ e # 0
        /\ ch(line, e + 1) = " "
        /\ Word3(line, e + 2)
        /\ TailMatch(line, e + 4, 1).ok
        /\ ~CommonwealthBankPattern(line).ok

\* C5: a Commonwealth Bank row with one of its two amount fields empty yields
\* a record whose amount is the debit, or the credit with a minus sign
C5_SignConvention ==
    (Parsed /\ statement_format = "commonwealth_bank") =>
        \A k \in DOMAIN lines :
            OneAmountRow(lines[k]) =>
                LET amount == TailMatch(lines[k], DigitsEnd(lines[k], 1) + 4, 1).amt2
                IN  \E n \in DOMAIN transactions :
                        transactions[n][3] \in {amount, "-" \o amount}

\* the substrings the claim lists, per format
ListedExclusions ==
    IF statement_format = "debit_card"
    THEN {"OpeningBalance", "ClosingBalance", "Deposit", "CreditCard/LOCpayment"}
    ELSE IF statement_format = "credit_card" THEN {"PAYMENT FROM"}
    ELSE {"OPENING BALANCE", "DEBIT INTEREST"}

\* record n of the parser is one the exclusion rule of the format names
Listed(n) == \E p \in ListedExclusions : HoldsIgnoreCase(transactions[n][2], p)

\* the indexes (from 0) of the rows of the table
Indexes == {df[k].index : k \in DOMAIN df}

\* C6: a record with a parseable amount is missing from the normalized table
\* exactly when its whole raw description holds, in any case, one of the
\* substrings listed for the format.
C6_ExclusionExact ==
    Normalized =>
        \A n \in DOMAIN transactions :
            ~ToNumeric(RemoveChar(transactions[n][3], ",")).nan =>
                ((n - 1) \notin Indexes <=> Listed(n))

\* C6 witness: a row left out for text a continuation line brought, in lower
\* case, and a row kept beside it
C6_Witness ==
    /\ pc = "done"
    /\ \E a \in Starts :
          /\ Listed(Rank(a))
          /\ ~(\E p \in ListedExclusions : HoldsIgnoreCase(StartOf(a)[2], p))
          /\ ~(\E p \in ListedExclusions : Contains(transactions[Rank(a)][2], p))
          /\ (Rank(a) - 1) \notin Indexes
    /\ df # <<>>

\* no line after the first matching line is a continuation line
OneLinePerTransaction == \A a \in Starts : \A n \in a..Len(lines) : n \in Starts

\* the rows of the table come in the order of their records
InRecordOrder == \A k \in DOMAIN df : \A m \in DOMAIN df : k < m => df[k].index < df[m].index

\* C7 as claimed: with one line per transaction the normalized table has one
\* row per matching line, in the order of the lines
C7_OneRowPerMatch ==
    (Normalized /\ OneLinePerTransaction) =>
        /\ Len(df) = Cardinality(Starts)
        /\ InRecordOrder

\* C7 as amended: with one line per transaction the normalized table has one
\* row per matching line whose amount parses and whose description holds none
\* of the exclusion substrings of the format, in the order of the lines
C7_OneRowPerKeptMatch ==
    (Normalized /\ OneLinePerTransaction) =>
        /\ Indexes = {Rank(a) - 1 : a \in {s \in Starts :
                          /\ ~ToNumeric(RemoveChar(StartOf(s)[3], ",")).nan
                          /\ ~Listed(Rank(s))}}
        /\ Len(df) = Cardinality(Indexes)
        /\ InRecordOrder
        /\ \A k \in DOMAIN df :
              df[k].Amount = ToNumeric(RemoveChar(transactions[df[k].index + 1][3], ","))

\* C7 witness: a document of matching lines only, one row left out and the
\* rows after it kept
C7_Witness ==
    /\ pc = "done"
    /\ OneLinePerTransaction
    /\ Cardinality(Starts) = MaxLines
    /\ Len(df) = 2
    /\ df[1].index = 1

\* the first category of the table with a keyword in the lowered description
FirstCategory(description) ==
    LET lowered == ToLower(description)
        hits    == {c \in DOMAIN categories :
                       \E w \in DOMAIN categories[c].keywords :
                           Contains(lowered, categories[c].keywords[w])}
    IN  IF hits = {} THEN "Other"
        ELSE categories[CHOOSE c \in hits : \A o \in hits : c <= o].name

\* C8: every row has the first category, in the order of the table, one of
\* whose keywords is in its description whatever the case, and "Other" when
\* there is none; "NETFLIX.COM" has "Subscriptions".
C8_FirstCategoryWins ==
    pc = "done" =>
        \A k \in DOMAIN df :
            /\ df[k].Category = FirstCategory(df[k].Description)
            /\ df[k].Description = "NETFLIX.COM" => df[k].Category = "Subscriptions"

\* C8 witness: a description with a later category's keyword written before an
\* earlier category's keyword has the earlier category
C8_Witness ==
    /\ pc = "done"
    /\ \E k \in DOMAIN df :
          /\ Contains(ToLower(df[k].Description), "uber i")
          /\ Contains(ToLower(df[k].Description), "iga")
          /\ df[k].Category = "Groceries"

\* the description the three words are taken from
Surviving(n) ==
    IF statement_format = "debit_card"
    THEN RemoveIgnoreCase(transactions[n][2], "Pointofsalepurchase")
    ELSE transactions[n][2]

\* C9: every description of the normalized table is the first three words (all
\* of them when fewer) of the description of its record, joined by one space,
\* with no blank at either end; for debit_card the words are those left once
\* Pointofsalepurchase, in any case, is taken out.
C9_ThreeWords ==
    Normalized =>
        \A k \in DOMAIN df :
            LET d     == df[k].Description
                kept  == Split(d)
                words == Split(Surviving(df[k].index + 1))
            IN  /\ Len(kept) <= 3
                /\ Len(kept) = (IF Len(words) < 3 THEN Len(words) ELSE 3)
                /\ \A w \in DOMAIN kept : kept[w] = words[w]
                /\ Strip(d) = d
                /\ \A c \in 1..Len(d) : IsSpace(ch(d, c)) => ch(d, c) = " " /\ ~IsSpace(ch(d, c + 1))

\* C9 witness: a debit_card description cut to three words after
\* Pointofsalepurchase was taken out of it
C9_Witness ==
    /\ pc = "done"
    /\ statement_format = "debit_card"
    /\ \E k \in DOMAIN df :
          /\ Len(Split(df[k].Description)) = 3
          /\ Len(Split(Surviving(df[k].index + 1))) > 3
          /\ Surviving(df[k].index + 1) # transactions[df[k].index + 1][2]

\* no record of the parser survives normalization
NoSurvivors ==
    \A n \in DOMAIN transactions :
        ToNumeric(RemoveChar(transactions[n][3], ",")).nan \/ Listed(n)

\* a stage of the pipeline is ready to run: the guard of one of its actions holds
CanStep ==
    \/ pc = "detect"
    \/ pc = "parse" /\ statement_format \in {"credit_card", "debit_card", "commonwealth_bank"}
    \/ pc = "normalize"
    \/ pc = "categorize"

\* C10: the pipeline never enters an error state, and with no line, or no
\* surviving row, it goes on to its end and the table it ends with is empty.
C10_EmptyIsNotAnError ==
    /\ pc # "error"
    /\ (pc = "done" /\ NoSurvivors) => df = <<>>
    /\ (pc # "done" /\ (lines = <<>> \/ (Parsed /\ NoSurvivors))) => CanStep

\* C10 witness: a document whose records were all left out ended with an empty table
C10_Witness ==
    /\ pc = "done"
    /\ transactions # <<>>
    /\ df = <<>>

====
